---- MODULE Spec2Model ----
(***************************************************************************)
(* discreen: the recording-capture-to-durable-media pipeline.              *)
(*                                                                         *)
(* Two processes are modelled.  The host process (src/src/main/main.ts,    *)
(* recorder.ts, settings.ts) owns the ScreenRecorder flag, the settings    *)
(* store and the IPC handlers "start-recording", "stop-recording",         *)
(* "set-delay", "set-save-path" and "save-video".  The UI process          *)
(* (src/unnamed/part_000, class ScreenRecorderApp) owns the MediaRecorder, *)
(* the live stream and the chunk buffer.  Every action is one run of a     *)
(* handler or callback between two await points: both processes are        *)
(* single-threaded event loops, so such a run is atomic.                   *)
(*                                                                         *)
(* The specifications share the variables and the actions:                 *)
(*   HostSpec  the start, stop, delay and status handlers under any        *)
(*             callers, and the click on Record that precedes a start;     *)
(*   SaveSpec  the save-video handler under any input and any outcome of   *)
(*             the file system, ffprobe and ffmpeg;                        *)
(*   HandlerSpec  the handlers of HostSpec and save-video side by side;    *)
(*   SettingsSpec  the handlers that read or write the settings;           *)
(*   OverlapSpec  the UI process with more than one capture at a time;     *)
(*   FairSpec  Spec under a fair event loop;                               *)
(*   Spec      the UI process under every sequence of events the host can  *)
(*             send, with the save-video handler it calls.                 *)
(***************************************************************************)
EXTENDS Integers, Sequences, FiniteSets, TLC

\* ------------------------------------------------------------------ bounds
\* Concurrent invocations of the "start-recording" handler.
MaxStarts == 2
\* Host -> UI events in flight plus start invocations that may still send one.
MaxIpc == 2
\* Largest value typed into the delay input (seconds).
MaxDelay == 1
\* Chunks the buffer can hold.
MaxChunks == 3
\* Stream/recorder pairs that exist at the same time in the UI process.
MaxCaptures == 2
\* getUserMedia calls pending at the same time.
MaxAcquiring == 2
\* Pending timers of one kind, and onstop handlers in their grace wait.
MaxTimers == 1
\* save-video invocations of the UI process in flight.
MaxSaves == 1
\* Events the host has sent that the UI process has not handled yet.
MaxPending == 1

\* ------------------------------------------------------------------ state
VARIABLES
  mainWindow,   \* main.ts:154        the BrowserWindow exists
  isRecording,  \* recorder.ts:5      ScreenRecorder.isRecording
  delayTimeout, \* recorder.ts:6      ScreenRecorder.delayTimeout
  delay,        \* settings.ts:12     store 'delay'
  platform,     \* recorder.ts:24     os.platform()
  starts,       \* main.ts:192-211    invocations of the start-recording handler
  ipc,          \* recorder.ts:59,74  webContents.send messages not yet delivered
  reply,        \* the result the handler step just taken returned, if any
  uiIsRecording,  \* part_000:25   ScreenRecorderApp.isRecording
  mediaRecorder,  \* part_000:22   the capture whose recorder the app references
  stream,         \* part_000:24   the capture whose stream the app references
  recordedChunks, \* part_000:23
  captures,       \* the MediaStream/MediaRecorder pairs made by doStartRecording
  acquiring,      \* part_000:87   pending getUserMedia calls (their source ids)
  verifyTimers,   \* part_000:172  pending 1000 ms timers
  stopTimers,     \* part_000:282  pending 50 ms timers
  onstopWaiting,  \* part_000:213  onstop handlers in the 200 ms wait
  status,         \* part_000:380  what updateStatus was called with by the step just taken
  savePath,       \* settings.ts:11   store 'savePath'
  saves,          \* part_000:255     the save-video invocations of the UI process
  job             \* main.ts:264      one save-video invocation, step by step

hostVars == <<mainWindow, isRecording, delayTimeout, delay, platform, starts, savePath>>
uiVars == <<uiIsRecording, mediaRecorder, stream, recordedChunks, captures,
            acquiring, verifyTimers, stopTimers, onstopWaiting>>
vars == <<hostVars, ipc, reply, status, uiVars, saves, job>>

Null == "null"
NoStatus == "none"
\* The null of the fields that refer to a capture (part_000:22, 24).
NoRef == 0

\* ------------------------------------------------------------ error texts
ErrNoWindow == "Main window not available"
ErrAlreadyRecording == "Recording is already in progress"
ErrNotRecording == "No recording in progress"
ErrNoSource == "No screen sources available"
ErrGetSources == "desktopCapturer.getSources rejected"

\* ----------------------------------------------------------- IPC results
NoReply == [handler |-> "none", success |-> FALSE, error |-> Null]
Success(h) == [handler |-> h, success |-> TRUE, error |-> Null]
Failure(h, msg) == [handler |-> h, success |-> FALSE, error |-> msg]

\* A step of the host process: what its handler returns, if it returns.
Replies(r) ==
  /\ reply' = r
  /\ status' = NoStatus

\* The events the host sends to the UI process.
StartEvent(video, audio) ==
  [type |-> "start-recording", videoSourceId |-> video, audioSourceId |-> audio]
StopEvent == [type |-> "stop-recording", videoSourceId |-> Null, audioSourceId |-> Null]

\* ------------------------------------------------------------- settings
getDelay == delay
\* A setDelay that stores what it is given, to compare with.
setDelayRaw(d) == d
setDelayValue(d) == IF d > 0 THEN d ELSE 0

\* ----------------------------------------------------- source enumeration
\* What desktopCapturer.getSources({types:['screen']}) can resolve to.
SourceLists == {<<>>, <<"screen:0:0">>, <<"screen:1:0", "screen:0:0">>}
\* An enumeration either rejects or resolves to a list.
Rejected == [ok |-> FALSE, sources |-> <<>>]
Resolved(l) == [ok |-> TRUE, sources |-> l]
Enumerations == {Rejected} \cup {Resolved(l) : l \in SourceLists}

Platforms == {"win32", "linux"}

\* ------------------------------------------------- start-recording handler
StartIds == 1..MaxStarts
IdleStart == [pc |-> "idle", video |-> Null]
ActiveStarts == {h \in StartIds : starts[h].pc # "idle"}

\* The handler has returned `r`: its invocation is over.
StartReturns(h, r) ==
  /\ starts' = [starts EXCEPT ![h] = IdleStart]
  /\ Replies(r)

\* recorder.ts:59-65: the event is sent, then the flag is set.
StartAccepted(h, video, audio) ==
  /\ ipc' = Append(ipc, StartEvent(video, audio))
  /\ isRecording' = TRUE
  /\ StartReturns(h, Success("start-recording"))

\* A handler whose exception gets out instead of being turned into a result, to
\* compare with.
StartThrows(h, msg) ==
  /\ UNCHANGED <<ipc, isRecording>>
  /\ StartReturns(h, NoReply)

StartRejected(h, msg) ==
  /\ UNCHANGED <<ipc, isRecording>>
  /\ StartReturns(h, Failure("start-recording", msg))

\* startRecording without the test of the flag, to compare with.
startRecordingUnchecked(h) ==
  /\ starts' = [starts EXCEPT ![h] = [pc |-> "getScreenSource", video |-> Null]]
  /\ Replies(NoReply)
  /\ UNCHANGED <<ipc, isRecording>>

\* recorder.ts:49-53: the flag is tested, then getScreenSource() is awaited.
startRecordingEnter(h) ==
  IF isRecording
  THEN StartRejected(h, ErrAlreadyRecording)
  ELSE /\ starts' = [starts EXCEPT ![h] = [pc |-> "getScreenSource", video |-> Null]]
       /\ Replies(NoReply)
       /\ UNCHANGED <<ipc, isRecording>>

\* part_000:295-308 with main.ts:258-261: the Record button is clicked;
\* startRecording of the UI process reads the delay input and has the host store
\* its value before it asks for the start.
RecordClicked(h, d) ==
  /\ mainWindow
  /\ starts[h].pc = "idle"
  /\ Len(ipc) + Cardinality(ActiveStarts) < MaxIpc
  /\ starts' = [starts EXCEPT ![h] = [pc |-> "saveDelay", video |-> Null]]
  /\ delay' = setDelayValue(d)
  /\ Replies(Success("set-delay"))
  /\ UNCHANGED <<mainWindow, isRecording, delayTimeout, platform, ipc, savePath, uiVars,
                 saves, job>>

\* main.ts:192-205 up to the first await, for a start asked for by the Record button
\* (part_000:316) or by any other caller.
StartRequest(h) ==
  /\ mainWindow
  /\ starts[h].pc \in {"idle", "saveDelay"}
  /\ Len(ipc) + Cardinality(ActiveStarts \ {h}) < MaxIpc
  /\ IF ~mainWindow
     THEN StartRejected(h, ErrNoWindow)
     ELSE IF getDelay > 0
          THEN /\ starts' = [starts EXCEPT ![h] = [pc |-> "delay", video |-> Null]]
               /\ Replies(NoReply)
               /\ UNCHANGED <<ipc, isRecording>>
          ELSE startRecordingEnter(h)
  /\ UNCHANGED <<mainWindow, delayTimeout, delay, platform, savePath, uiVars, saves, job>>

\* main.ts:202: the setTimeout of the pre-roll delay fires.
DelayElapsed(h) ==
  /\ starts[h].pc = "delay"
  /\ startRecordingEnter(h)
  /\ UNCHANGED <<mainWindow, delayTimeout, delay, platform, savePath, uiVars, saves, job>>

\* getScreenSource taking the last entry and letting an empty list through as no
\* source at all, to compare with.
ScreenSourceDoneLast(h, e) ==
  /\ starts[h].pc = "getScreenSource"
  /\ IF ~e.ok
     THEN StartRejected(h, ErrGetSources)
     ELSE IF Len(e.sources) = 0
          THEN StartAccepted(h, Null, Null)
          ELSE StartAccepted(h, e.sources[Len(e.sources)], Null)
  /\ UNCHANGED <<mainWindow, delayTimeout, delay, platform, savePath, uiVars, saves, job>>

\* recorder.ts:8-20 and 53-54: getSources resolves or rejects in getScreenSource;
\* on another platform than win32 getAudioSource returns null without a real await.
ScreenSourceDone(h, e) ==
  /\ starts[h].pc = "getScreenSource"
  /\ IF ~e.ok
     THEN StartRejected(h, ErrGetSources)
     ELSE IF Len(e.sources) = 0
          THEN StartRejected(h, ErrNoSource)
          ELSE IF platform # "win32"
               THEN StartAccepted(h, e.sources[1], Null)
               ELSE /\ starts' = [starts EXCEPT ![h] =
                                    [pc |-> "getAudioSource", video |-> e.sources[1]]]
                    /\ Replies(NoReply)
                    /\ UNCHANGED <<ipc, isRecording>>
  /\ UNCHANGED <<mainWindow, delayTimeout, delay, platform, savePath, uiVars, saves, job>>

\* recorder.ts:28-45: the audio enumeration; a rejection is caught.
AudioSourceOf(e) ==
  IF e.ok /\ Len(e.sources) > 0 THEN e.sources[1] ELSE Null

\* An audio enumeration whose rejection ends the start, to compare with.
AudioSourceDoneFatal(h, e) ==
  /\ starts[h].pc = "getAudioSource"
  /\ IF e.ok
     THEN StartAccepted(h, starts[h].video, AudioSourceOf(e))
     ELSE StartRejected(h, ErrGetSources)
  /\ UNCHANGED <<mainWindow, delayTimeout, delay, platform, savePath, uiVars, saves, job>>

AudioSourceDone(h, e) ==
  /\ starts[h].pc = "getAudioSource"
  /\ StartAccepted(h, starts[h].video, AudioSourceOf(e))
  /\ UNCHANGED <<mainWindow, delayTimeout, delay, platform, savePath, uiVars, saves, job>>

\* -------------------------------------------------- stop-recording handler
\* stopRecording without the test of the flag, to compare with.
stopRecordingUnguarded ==
  /\ ipc' = Append(ipc, StopEvent)
  /\ isRecording' = FALSE
  /\ Replies(Success("stop-recording"))

\* recorder.ts:68-76 inside main.ts:213-226; no await before the flag is cleared.
stopRecording ==
  IF ~isRecording
  THEN /\ Replies(Failure("stop-recording", ErrNotRecording))
       /\ UNCHANGED <<ipc, isRecording>>
  ELSE /\ ipc' = Append(ipc, StopEvent)
       /\ isRecording' = FALSE
       /\ Replies(Success("stop-recording"))

StopRequest ==
  /\ mainWindow
  /\ Len(ipc) + Cardinality(ActiveStarts) < MaxIpc
  /\ IF ~mainWindow
     THEN /\ Replies(Failure("stop-recording", ErrNoWindow))
          /\ UNCHANGED <<ipc, isRecording>>
     ELSE stopRecording
  /\ UNCHANGED <<mainWindow, delayTimeout, delay, platform, starts, savePath, uiVars, saves, job>>

\* main.ts:258-261 with settings.ts:33.
SetDelay(d) ==
  /\ mainWindow
  /\ delay' = setDelayValue(d)
  /\ delay' # delay
  /\ Replies(Success("set-delay"))
  /\ UNCHANGED <<mainWindow, isRecording, delayTimeout, platform, starts, ipc, savePath, uiVars, saves, job>>

\* recorder.ts:78-80.
getRecordingStatus == isRecording

\* What get-recording-status returns is the bare flag, not a result record.
Status(value) == [handler |-> "get-recording-status", value |-> value]

\* A query that also clears the flag, to compare with.
GetRecordingStatusResets ==
  /\ mainWindow
  /\ Replies(Status(getRecordingStatus))
  /\ isRecording' = FALSE
  /\ UNCHANGED <<mainWindow, delayTimeout, delay, platform, starts, ipc, savePath, uiVars, saves, job>>

\* main.ts:228-230.
GetRecordingStatus ==
  /\ mainWindow
  /\ Replies(Status(getRecordingStatus))
  /\ UNCHANGED <<hostVars, ipc, uiVars, saves, job>>

\* main.ts:157-176: the window is created once the application is ready.
CreateWindow ==
  /\ ~mainWindow
  /\ mainWindow' = TRUE
  /\ Replies(NoReply)
  /\ UNCHANGED <<isRecording, delayTimeout, delay, platform, starts, ipc, savePath, uiVars, saves, job>>

\* preload.ts:18-23: the UI process takes the next event off the channel; what it
\* does with it is left out.
EventTaken ==
  /\ Len(ipc) > 0
  /\ ipc' = Tail(ipc)
  /\ Replies(NoReply)
  /\ UNCHANGED <<hostVars, uiVars, saves, job>>

\* ================================================== save-video (host process)
\* main.ts:264-396.  The handler is modelled once, as three steps between its await
\* points (the synchronous write and check, the probe, the transcode), each a pure
\* operator on the handler's local state.
DefaultSavePath == "videos"
Dirs == {DefaultSavePath, "picked"}

\* A path is path.join(dir, name); a name is the sequence of its parts.
PathJoin(dir, name) == <<dir, name>>
NoPath == <<>>

HasPart(name, part) == \E i \in 1..Len(name) : name[i] = part
FirstIndex(name, part) ==
  CHOOSE i \in 1..Len(name) : name[i] = part /\ \A k \in 1..(i - 1) : name[k] # part
\* String.prototype.replace with a string pattern: the first occurrence only.
ReplaceFirst(name, from, to) ==
  IF HasPart(name, from) THEN [name EXCEPT ![FirstIndex(name, from)] = to] ELSE name

\* main.ts:291
Mp4Filename(filename) == ReplaceFirst(filename, ".webm", ".mp4")

SaveOk(p) == [success |-> TRUE, error |-> Null, path |-> p]
SaveError(msg) == [success |-> FALSE, error |-> msg, path |-> NoPath]
NoResult == [success |-> FALSE, error |-> Null, path |-> NoPath]

ErrMkdir == "EACCES: mkdir"
ErrWrite == "ENOSPC: write"
ErrEmptyWebm == "WebM file is empty"

\* Files on disk, as far as the handler can tell.
Absent == "absent"
Webm == "webm"
Mp4 == "mp4"
PartialMp4 == "partial mp4"
Exists(files, p) == files[p] # Absent

\* What the file system does to the synchronous part (main.ts:274-283): all goes
\* well, mkdirSync throws, writeFileSync throws, or the file reads back empty.
IoOutcomes == {"ok", "mkdirFails", "writeFails", "readsBackEmpty"}

\* What ffprobe calls back with (main.ts:299-302): an error, or data whose streams
\* may be missing.
NoProbe == [kind |-> "none", hasStreams |-> FALSE, streams |-> <<>>]
ProbeFailed == [kind |-> "error", hasStreams |-> FALSE, streams |-> <<>>]
ProbeData(s) == [kind |-> "data", hasStreams |-> TRUE, streams |-> s]
ProbeNoStreams == [kind |-> "data", hasStreams |-> FALSE, streams |-> <<>>]
ProbeOutcomes ==
  {ProbeFailed, ProbeNoStreams, ProbeData(<<>>), ProbeData(<<"video">>),
   ProbeData(<<"video", "audio">>)}

\* An encoder set up for audio whatever the probe said, to compare with.
HasAudioAlways(p) == TRUE

\* main.ts:296-317
HasAudio(p) ==
  /\ p.kind = "data"
  /\ p.hasStreams
  /\ \E i \in 1..Len(p.streams) : p.streams[i] = "audio"

VideoOptions == <<"-c:v libx264", "-preset fast", "-crf 23", "-movflags +faststart">>
AudioOptions == <<"-c:a aac", "-b:a 128k">>
\* main.ts:320-333
OutputOptions(hasAudio) == VideoOptions \o (IF hasAudio THEN AudioOptions ELSE <<>>)

\* The messages of the error event, as the phrases they are made of.
Messages ==
  {<<"ffmpeg", "exited with code 1">>, <<"Invalid data", "found when processing input">>,
   <<"Output stream closed">>, <<>>}
\* What the transcode ends with (main.ts:352-375): the end event (unlinkSync then
\* works or throws), or the error event, before or after ffmpeg has created its
\* output file.
TranscodeEnd(unlinked) ==
  [kind |-> "end", message |-> <<>>, output |-> TRUE, unlinked |-> unlinked]
TranscodeError(msg, output) ==
  [kind |-> "error", message |-> msg, output |-> output, unlinked |-> FALSE]
NoTranscode == [kind |-> "none", message |-> <<>>, output |-> FALSE, unlinked |-> FALSE]
\* ffmpeg refuses to write its output over its input: when the two paths are the
\* same file the transcode can only fail, and leaves the file as it was.
TranscodeOutcomes(samePath) ==
  IF samePath
  THEN {TranscodeError(m, FALSE) : m \in Messages}
  ELSE {TranscodeEnd(u) : u \in BOOLEAN}
         \cup {TranscodeError(m, o) : m \in Messages, o \in BOOLEAN}

\* main.ts:365-369: a message that is empty is falsy.
KeepsWebm(msg) ==
  Len(msg) > 0 /\ (HasPart(msg, "ffmpeg") \/ HasPart(msg, "Invalid data"))

IdleJob ==
  [pc |-> "idle", dir |-> Null, filename |-> <<>>, size |-> 0,
   files |-> <<>>, probe |-> NoProbe, hasAudio |-> FALSE, options |-> <<>>,
   transcode |-> NoTranscode, result |-> NoResult]

WebmPath(j) == PathJoin(j.dir, j.filename)
Mp4Path(j) == PathJoin(j.dir, Mp4Filename(j.filename))
JobPaths(j) == {WebmPath(j), Mp4Path(j)}

\* A handler that does not look at the size it reads back, to compare with.
HandleStepUnverified(dir, buffer, filename, io) ==
  LET j == [IdleJob EXCEPT !.dir = dir, !.filename = filename, !.size = Len(buffer)]
      none == [p \in JobPaths(j) |-> Absent]
      written == [none EXCEPT ![WebmPath(j)] = Webm]
  IN IF io = "mkdirFails"
     THEN [j EXCEPT !.pc = "replied", !.files = none, !.result = SaveError(ErrMkdir)]
     ELSE IF io = "writeFails"
     THEN [j EXCEPT !.pc = "replied", !.files = none, !.result = SaveError(ErrWrite)]
     ELSE [j EXCEPT !.pc = "probing", !.files = written]

\* main.ts:267-288 and 391-394: the directory is ensured, the buffer written and its
\* size read back.
HandleStep(dir, buffer, filename, io) ==
  LET j == [IdleJob EXCEPT !.dir = dir, !.filename = filename, !.size = Len(buffer)]
      none == [p \in JobPaths(j) |-> Absent]
      size == IF io = "readsBackEmpty" THEN 0 ELSE Len(buffer)
      written == [none EXCEPT ![WebmPath(j)] = Webm]
  IN IF io = "mkdirFails"
     THEN [j EXCEPT !.pc = "replied", !.files = none, !.result = SaveError(ErrMkdir)]
     ELSE IF io = "writeFails"
     THEN [j EXCEPT !.pc = "replied", !.files = none, !.result = SaveError(ErrWrite)]
     ELSE IF size = 0
     THEN [j EXCEPT !.pc = "replied", !.files = written,
                    !.result = SaveError(ErrEmptyWebm)]
     ELSE [j EXCEPT !.pc = "probing", !.files = written]

\* A handler that gives up when the probe fails, to compare with.
ProbeStepFatal(j, p) ==
  IF p.kind = "error"
  THEN [j EXCEPT !.pc = "replied", !.probe = p, !.result = SaveError("ffprobe failed")]
  ELSE [j EXCEPT !.pc = "transcoding", !.probe = p, !.hasAudio = HasAudio(p),
                 !.options = OutputOptions(HasAudio(p))]

\* main.ts:295-337: the probe settles, the options are built and ffmpeg is run.
ProbeStep(j, p) ==
  [j EXCEPT !.pc = "transcoding", !.probe = p, !.hasAudio = HasAudio(p),
            !.options = OutputOptions(HasAudio(p))]

\* A handler that deletes the temporary file on the error event too, to compare with.
UnlinksOnError(t) == t.unlinked \/ t.kind = "error"

\* main.ts:352-359: unlinkSync is called in the handler of the end event only, and
\* may throw.
Unlinks(t) == t.kind = "end" /\ t.unlinked

\* A handler that reports the .mp4 whenever the transcode promise resolved, without
\* looking for the file, to compare with.
TranscodeStepUnchecked(j, t) ==
  LET produced == IF t.output
                  THEN [j.files EXCEPT ![Mp4Path(j)] =
                          IF t.kind = "end" THEN Mp4 ELSE PartialMp4]
                  ELSE j.files
      after == IF Unlinks(t)
               THEN [produced EXCEPT ![WebmPath(j)] = Absent]
               ELSE produced
      resolved == t.kind = "end" \/ KeepsWebm(t.message)
      path == IF resolved THEN Mp4Path(j) ELSE WebmPath(j)
  IN [j EXCEPT !.pc = "replied", !.transcode = t, !.files = after,
               !.result = SaveOk(path)]

\* main.ts:352-390: the transcode ends; the temporary file is deleted on the end
\* event, and the path to report is chosen.
TranscodeStep(j, t) ==
  LET produced == IF t.output
                  THEN [j.files EXCEPT ![Mp4Path(j)] =
                          IF t.kind = "end" THEN Mp4 ELSE PartialMp4]
                  ELSE j.files
      after == IF Unlinks(t)
               THEN [produced EXCEPT ![WebmPath(j)] = Absent]
               ELSE produced
      resolved == t.kind = "end" \/ KeepsWebm(t.message)
      path == IF resolved /\ Exists(after, Mp4Path(j)) THEN Mp4Path(j) ELSE WebmPath(j)
  IN [j EXCEPT !.pc = "replied", !.transcode = t, !.files = after,
               !.result = SaveOk(path)]

\* ------------------------------------------ the handler as the UI process calls it
SaveIds == 1..MaxSaves
IdleSave ==
  [pc |-> "idle", buffer |-> <<>>, filename |-> <<>>, job |-> IdleJob]
\* part_000:255: window.electronAPI.saveVideo(arrayBuffer, filename) is on its way.
Submitted(buffer, filename) ==
  [IdleSave EXCEPT !.pc = "sent", !.buffer = buffer, !.filename = filename]

\* main.ts:267-288: the invocation reaches the host, which reads the save path and
\* writes the buffer out.
SaveVideoHandle(s, io) ==
  /\ saves[s].pc = "sent"
  /\ LET j == HandleStep(savePath, saves[s].buffer, saves[s].filename, io)
     IN saves' = [saves EXCEPT ![s] =
                    [pc |-> IF j.pc = "replied" THEN "replied" ELSE "converting",
                     buffer |-> <<>>, filename |-> j.filename,
                     job |-> [j EXCEPT !.size = 0]]]
  /\ Replies(NoReply)
  /\ UNCHANGED <<hostVars, ipc, uiVars, job>>

\* main.ts:295-390: the probe and the transcode, which touch nothing but the
\* handler's own files, and the return of the result.
SaveVideoConverted(s, p, t) ==
  /\ saves[s].pc = "converting"
  /\ t \in TranscodeOutcomes(WebmPath(saves[s].job) = Mp4Path(saves[s].job))
  /\ LET done == TranscodeStep(ProbeStep(saves[s].job, p), t)
     IN saves' = [saves EXCEPT ![s] =
                    [pc |-> "replied", buffer |-> <<>>, filename |-> done.filename,
                     job |-> [IdleJob EXCEPT !.pc = "replied", !.dir = done.dir,
                                             !.filename = done.filename,
                                             !.result = done.result]]]
  /\ Replies(NoReply)
  /\ UNCHANGED <<hostVars, ipc, uiVars, job>>

\* main.ts:236-252 with settings.ts:24-26: the file picker returns a directory.
SetSavePath(d) ==
  /\ mainWindow
  /\ d # savePath
  /\ savePath' = d
  /\ Replies(Success("set-save-path"))
  /\ UNCHANGED <<mainWindow, isRecording, delayTimeout, delay, platform, starts, ipc,
                 uiVars, saves, job>>

\* ======================================================= the UI process
\* ScreenRecorderApp of src/unnamed/part_000.
CaptureIds == 1..MaxCaptures
\* A capture is the MediaStream getUserMedia resolved to and the MediaRecorder made
\* over it.  video: the readyState of the stream's video track ("absent": the stream
\* has no video track); rec: MediaRecorder.state; onstop: doStopRecording has set
\* the onstop handler; finishing: the recorder went inactive and its last
\* dataavailable and its stop event are queued.
NoCapture == [video |-> "none", rec |-> "none", onstop |-> FALSE, finishing |-> FALSE]

\* A capture nothing refers to and nothing can come from any more.
Garbage(caps, c, mr, st) ==
  /\ c # mr
  /\ c # st
  /\ caps[c].video # "live"
  /\ caps[c].rec # "recording"
  /\ ~caps[c].finishing

Collect(caps, mr, st) ==
  [c \in CaptureIds |-> IF Garbage(caps, c, mr, st) THEN NoCapture ELSE caps[c]]

\* The captures doStartRecording can use for a new stream: it overwrites both
\* references of the app, so whatever only they keep alive is free too.
FreeCaptures == {c \in CaptureIds : Garbage(captures, c, NoRef, NoRef)}

\* The recorders that still have a last dataavailable event to deliver.
Emitting == {c \in CaptureIds : captures[c].rec = "recording" \/ captures[c].finishing}

\* A chunk is the bytes of one Blob.  The program never looks into the bytes, only at
\* their number, so a chunk that is not empty carries the position it arrives at, as
\* many times: a lost, repeated or misplaced chunk shows in the concatenation.
Bytes(k) == [i \in 1..k |-> k]
\* What a dataavailable event can bring when the buffer holds `chunks`.
ChunksAfter(chunks) == {<<>>, Bytes(Len(chunks) + 1)}
\* Every chunk a dataavailable event can bring.
Chunks == {<<>>} \cup {Bytes(k) : k \in 1..MaxChunks}

RECURSIVE FlattenBackwards(_)
\* The bytes of the parts with the last part first, to compare with.
FlattenBackwards(parts) ==
  IF parts = <<>> THEN <<>> ELSE FlattenBackwards(Tail(parts)) \o Head(parts)

RECURSIVE Flatten(_)
\* new Blob(parts): the bytes of the parts, in order.
Flatten(parts) ==
  IF parts = <<>> THEN <<>> ELSE Head(parts) \o Flatten(Tail(parts))

RECURSIVE TotalSize(_)
\* part_000:236: the reduce over chunk.size.
TotalSize(parts) ==
  IF parts = <<>> THEN 0 ELSE Len(Head(parts)) + TotalSize(Tail(parts))

NonEmpty(ch) == Len(ch) > 0
\* part_000:224
nonEmptyChunks(chunks) == SelectSeq(chunks, NonEmpty)

RemoveAt(s, i) == SubSeq(s, 1, i - 1) \o SubSeq(s, i + 1, Len(s))

\* part_000:252: recording-<timestamp>.webm, as the parts of the name.
RecordingFilename == <<"recording-", ".webm">>

\* The texts updateStatus is called with (part_000:125, 152, 177, 190, 193, 230, 244,
\* 258, 260, 269).
StatusRecording == "Recording..."
StatusErrorRecording == "Error recording"
StatusTrackEnded == "Video track ended - recording failed"
StatusFailedToStart == "Failed to start recording"
StatusErrorStarting == "Error starting recording"
StatusNoVideoData ==
  "Error: No video data recorded - try recording for at least 2-3 seconds"
StatusEmptyVideo == "Error: Recorded video is empty (no data in chunks)"
StatusSaved == "Recording saved as MP4"
StatusErrorSaving == "Error saving recording"

\* A step of the UI process: what it calls updateStatus with, if it does.
Says(st) ==
  /\ status' = st
  /\ reply' = NoReply

\* MediaRecorder.stop() and the end of all tracks both leave the recorder inactive
\* with its last events queued.
Halted(cap) ==
  IF cap.rec = "recording"
  THEN [cap EXCEPT !.rec = "inactive", !.finishing = TRUE]
  ELSE cap

\* preload.ts:18-20: the listener hands the callback the payload of the event as it
\* came, an object with the two ids, not a string.
JsObject(data) == [object |-> data]
Payload(ev) ==
  JsObject([videoSourceId |-> ev.videoSourceId, audioSourceId |-> ev.audioSourceId])

\* part_000:69-71 and 79-96: the event arrives; doStartRecording runs up to the
\* await of getUserMedia, to which it passes what the callback was given as
\* chromeMediaSourceId.
OnStartRecording ==
  /\ Len(ipc) > 0
  /\ Head(ipc).type = "start-recording"
  /\ uiIsRecording \/ Len(acquiring) < MaxAcquiring
  /\ ipc' = Tail(ipc)
  /\ acquiring' = IF uiIsRecording
                  THEN acquiring
                  ELSE Append(acquiring, [chromeMediaSourceId |-> Payload(Head(ipc))])
  /\ Says(NoStatus)
  /\ UNCHANGED <<hostVars, job, saves, uiIsRecording, mediaRecorder, stream,
                 recordedChunks, captures, verifyTimers, stopTimers, onstopWaiting>>

UserMediaOutcomes == {"rejected", "absent", "ended", "live"}

\* part_000:87-194: getUserMedia settles and doStartRecording runs to its end.
\* o is "rejected", or the state of the video track of the stream it resolved to.
UserMediaDone(i, o) ==
  /\ i \in 1..Len(acquiring)
  /\ acquiring' = RemoveAt(acquiring, i)
  /\ IF o = "rejected"
     THEN /\ Says(StatusErrorStarting)
          /\ UNCHANGED <<uiIsRecording, mediaRecorder, stream, recordedChunks, captures,
                         verifyTimers>>
     ELSE /\ FreeCaptures # {}
          /\ o = "live" => verifyTimers < MaxTimers
          /\ LET c == CHOOSE x \in FreeCaptures : \A y \in FreeCaptures : x <= y
                 made == [video |-> o,
                          rec |-> IF o = "live" THEN "recording" ELSE "inactive",
                          onstop |-> FALSE, finishing |-> FALSE]
             IN /\ stream' = c
                /\ recordedChunks' = <<>>
                /\ mediaRecorder' = c
                /\ captures' = Collect([captures EXCEPT ![c] = made], c, c)
          /\ IF o = "live"
             THEN /\ verifyTimers' = verifyTimers + 1
                  /\ uiIsRecording' = TRUE
                  /\ Says(StatusRecording)
             ELSE /\ Says(StatusErrorStarting)
                  /\ UNCHANGED <<verifyTimers, uiIsRecording>>
  /\ UNCHANGED <<hostVars, ipc, job, saves, stopTimers, onstopWaiting>>

\* An ondataavailable that keeps only the chunks with data, to compare with.
ChunkArrivesDropsEmpty(c, ch) ==
  /\ captures[c].rec = "recording"
  /\ Len(recordedChunks) + Cardinality(Emitting) < MaxChunks
  /\ ch \in ChunksAfter(recordedChunks)
  /\ recordedChunks' = IF Len(ch) > 0 THEN Append(recordedChunks, ch) ELSE <<ch>>
  /\ Says(NoStatus)
  /\ UNCHANGED <<hostVars, ipc, job, saves, uiIsRecording, mediaRecorder, stream,
                 captures, acquiring, verifyTimers, stopTimers, onstopWaiting>>

\* part_000:114-121: ondataavailable of a recorder that is recording.
ChunkArrives(c, ch) ==
  /\ captures[c].rec = "recording"
  /\ Len(recordedChunks) + Cardinality(Emitting) < MaxChunks
  /\ ch \in ChunksAfter(recordedChunks)
  /\ recordedChunks' = Append(recordedChunks, ch)
  /\ Says(NoStatus)
  /\ UNCHANGED <<hostVars, ipc, job, saves, uiIsRecording, mediaRecorder, stream,
                 captures, acquiring, verifyTimers, stopTimers, onstopWaiting>>

\* part_000:123-127: the recorder fails; onerror runs.
RecorderError(c) ==
  /\ captures[c].rec = "recording"
  /\ captures' = [captures EXCEPT ![c] = Halted(captures[c])]
  /\ Says(StatusErrorRecording)
  /\ uiIsRecording' = FALSE
  /\ UNCHANGED <<hostVars, ipc, job, saves, mediaRecorder, stream, recordedChunks,
                 acquiring, verifyTimers, stopTimers, onstopWaiting>>

\* part_000:149-155: the source ends the video track; onended runs and the recorder,
\* all of whose tracks have ended, goes inactive.
TrackEnded(c) ==
  /\ captures[c].video = "live"
  /\ captures' = Collect([captures EXCEPT ![c] =
                            [Halted(captures[c]) EXCEPT !.video = "ended"]],
                         mediaRecorder, stream)
  /\ Says(StatusTrackEnded)
  /\ uiIsRecording' = FALSE
  /\ UNCHANGED <<hostVars, ipc, job, saves, mediaRecorder, stream, recordedChunks,
                 acquiring, verifyTimers, stopTimers, onstopWaiting>>

\* A check after start that ends the session by itself, as doStopRecording would, to
\* compare with.
VerifyTimerStops ==
  /\ verifyTimers > 0
  /\ verifyTimers' = verifyTimers - 1
  /\ captures' = IF mediaRecorder # NoRef
                 THEN [captures EXCEPT ![mediaRecorder] =
                         [Halted(captures[mediaRecorder]) EXCEPT !.onstop = TRUE]]
                 ELSE captures
  /\ Says(NoStatus)
  /\ UNCHANGED <<hostVars, ipc, job, saves, uiIsRecording, mediaRecorder, stream,
                 recordedChunks, acquiring, stopTimers, onstopWaiting>>

\* part_000:172-187: the 1000 ms check after start.
VerifyTimerFires ==
  /\ verifyTimers > 0
  /\ verifyTimers' = verifyTimers - 1
  /\ IF mediaRecorder # NoRef /\ captures[mediaRecorder].rec # "recording"
     THEN /\ Says(StatusFailedToStart)
          /\ uiIsRecording' = FALSE
     ELSE /\ Says(NoStatus)
          /\ UNCHANGED uiIsRecording
  /\ UNCHANGED <<hostVars, ipc, job, saves, mediaRecorder, stream, recordedChunks,
                 captures, acquiring, stopTimers, onstopWaiting>>

\* part_000:74-76 and 197-292: the event arrives and doStopRecording runs: the onstop
\* handler is set, and the recorder is asked for its data with a stop 50 ms later.
\* stop() on a recorder that is not recording stops nothing.
OnStopRecording ==
  /\ Len(ipc) > 0
  /\ Head(ipc).type = "stop-recording"
  /\ ipc' = Tail(ipc)
  /\ Says(NoStatus)
  /\ IF mediaRecorder = NoRef \/ ~uiIsRecording
     THEN UNCHANGED <<captures, stopTimers>>
     ELSE /\ captures' = [captures EXCEPT ![mediaRecorder].onstop = TRUE]
          /\ IF captures[mediaRecorder].rec = "recording"
             THEN /\ stopTimers < MaxTimers
                  /\ stopTimers' = stopTimers + 1
             ELSE UNCHANGED stopTimers
  /\ UNCHANGED <<hostVars, job, saves, uiIsRecording, mediaRecorder, stream,
                 recordedChunks, acquiring, verifyTimers, onstopWaiting>>

\* part_000:282-286: the 50 ms timer stops whatever recorder the app refers to now.
StopTimerFires ==
  /\ stopTimers > 0
  /\ stopTimers' = stopTimers - 1
  /\ captures' = IF mediaRecorder # NoRef
                 THEN [captures EXCEPT ![mediaRecorder] = Halted(captures[mediaRecorder])]
                 ELSE captures
  /\ Says(NoStatus)
  /\ UNCHANGED <<hostVars, ipc, job, saves, uiIsRecording, mediaRecorder, stream,
                 recordedChunks, acquiring, verifyTimers, onstopWaiting>>

\* The recorder delivers its last dataavailable event (part_000:114-121) and its stop
\* event; a handler set by doStopRecording runs up to its 200 ms wait
\* (part_000:208-213).
RecorderStopped(c, ch) ==
  /\ captures[c].finishing
  /\ captures[c].onstop => onstopWaiting < MaxTimers
  /\ ch \in ChunksAfter(recordedChunks)
  /\ recordedChunks' = Append(recordedChunks, ch)
  /\ onstopWaiting' = IF captures[c].onstop THEN onstopWaiting + 1 ELSE onstopWaiting
  /\ captures' = Collect([captures EXCEPT ![c].finishing = FALSE], mediaRecorder, stream)
  /\ Says(NoStatus)
  /\ UNCHANGED <<hostVars, ipc, job, saves, uiIsRecording, mediaRecorder, stream,
                 acquiring, verifyTimers, stopTimers>>

\* part_000:217-221: every track of the stream the app refers to is stopped.
StopTracks(caps, st) ==
  IF st = NoRef
  THEN caps
  ELSE [caps EXCEPT ![st] =
          [Halted(caps[st]) EXCEPT !.video = IF caps[st].video = "live"
                                             THEN "stopped" ELSE caps[st].video]]

FreeSaves == {s \in SaveIds : saves[s].pc = "idle"}

\* A finalization that submits whatever was buffered, to compare with.
OnstopFinalizeUnvalidated ==
  /\ onstopWaiting > 0
  /\ FreeSaves # {}
  /\ onstopWaiting' = onstopWaiting - 1
  /\ stream' = NoRef
  /\ LET s == CHOOSE x \in FreeSaves : \A y \in FreeSaves : x <= y
     IN saves' = [saves EXCEPT ![s] = Submitted(Flatten(recordedChunks), RecordingFilename)]
  /\ captures' = Collect(StopTracks(captures, stream), mediaRecorder, NoRef)
  /\ Says(NoStatus)
  /\ UNCHANGED <<hostVars, ipc, job, acquiring, verifyTimers, stopTimers,
                 uiIsRecording, mediaRecorder, recordedChunks>>

\* A finalization that validates the buffer before it releases the stream, and so
\* keeps the stream when the buffer is refused, to compare with.
OnstopFinalizeValidatesFirst ==
  /\ onstopWaiting > 0
  /\ onstopWaiting' = onstopWaiting - 1
  /\ LET kept == nonEmptyChunks(recordedChunks)
     IN IF Len(kept) = 0 \/ Len(Flatten(kept)) = 0 \/ TotalSize(kept) = 0
        THEN /\ Says(IF Len(kept) = 0 THEN StatusNoVideoData ELSE StatusEmptyVideo)
             /\ uiIsRecording' = FALSE
             /\ mediaRecorder' = NoRef
             /\ recordedChunks' = <<>>
             /\ captures' = Collect(captures, NoRef, stream)
             /\ UNCHANGED <<saves, stream>>
        ELSE /\ FreeSaves # {}
             /\ stream' = NoRef
             /\ LET s == CHOOSE x \in FreeSaves : \A y \in FreeSaves : x <= y
                IN saves' = [saves EXCEPT ![s] = Submitted(Flatten(kept), RecordingFilename)]
             /\ captures' = Collect(StopTracks(captures, stream), mediaRecorder, NoRef)
             /\ Says(NoStatus)
             /\ UNCHANGED <<uiIsRecording, mediaRecorder, recordedChunks>>
  /\ UNCHANGED <<hostVars, ipc, job, acquiring, verifyTimers, stopTimers>>

\* part_000:215-255 and 267-273: after the wait the stream is released, the buffer is
\* filtered and validated, and either save-video is invoked or the error is handled.
OnstopFinalize ==
  /\ onstopWaiting > 0
  /\ onstopWaiting' = onstopWaiting - 1
  /\ stream' = NoRef
  /\ LET kept == nonEmptyChunks(recordedChunks)
     IN IF Len(kept) = 0 \/ Len(Flatten(kept)) = 0 \/ TotalSize(kept) = 0
        THEN /\ Says(IF Len(kept) = 0 THEN StatusNoVideoData ELSE StatusEmptyVideo)
             /\ uiIsRecording' = FALSE
             /\ mediaRecorder' = NoRef
             /\ recordedChunks' = <<>>
             /\ captures' = Collect(StopTracks(captures, stream), NoRef, NoRef)
             /\ UNCHANGED saves
        ELSE /\ FreeSaves # {}
             /\ LET s == CHOOSE x \in FreeSaves : \A y \in FreeSaves : x <= y
                IN saves' = [saves EXCEPT ![s] = Submitted(Flatten(kept), RecordingFilename)]
             /\ captures' = Collect(StopTracks(captures, stream), mediaRecorder, NoRef)
             /\ Says(NoStatus)
             /\ UNCHANGED <<uiIsRecording, mediaRecorder, recordedChunks>>
  /\ UNCHANGED <<hostVars, ipc, job, acquiring, verifyTimers, stopTimers>>

\* part_000:255-266: the result of save-video arrives and the handler finishes.
SaveVideoReturned(s) ==
  /\ saves[s].pc = "replied"
  /\ Says(IF saves[s].job.result.success THEN StatusSaved ELSE StatusErrorSaving)
  /\ uiIsRecording' = FALSE
  /\ mediaRecorder' = NoRef
  /\ recordedChunks' = <<>>
  /\ captures' = Collect(captures, NoRef, stream)
  /\ saves' = [saves EXCEPT ![s] = IdleSave]
  /\ UNCHANGED <<hostVars, ipc, job, stream, acquiring, verifyTimers, stopTimers,
                 onstopWaiting>>

\* ============================================== save-video, one invocation
\* The names save-video can be called with: the one the UI process makes, and one
\* that has no ".webm" in it.
Filenames == {RecordingFilename, <<"capture">>}
\* The buffers it can be called with, the empty one included.
Buffers == {<<>>, <<1>>, <<1, 2>>}

\* main.ts:264-288: the handler is invoked and runs up to the probe.
SaveVideo(buffer, filename, io) ==
  /\ mainWindow
  /\ job.pc \in {"idle", "replied"}
  /\ job' = HandleStep(savePath, buffer, filename, io)
  /\ Replies(NoReply)
  /\ UNCHANGED <<hostVars, ipc, uiVars, saves>>

\* main.ts:298-335: ffprobe calls back; the options are built and ffmpeg is run.
FfprobeDone(p) ==
  /\ job.pc = "probing"
  /\ job' = ProbeStep(job, p)
  /\ Replies(NoReply)
  /\ UNCHANGED <<hostVars, ipc, uiVars, saves>>

\* main.ts:352-390: ffmpeg emits end or error; the handler returns.
FfmpegDone(t) ==
  /\ job.pc = "transcoding"
  /\ t \in TranscodeOutcomes(WebmPath(job) = Mp4Path(job))
  /\ job' = TranscodeStep(job, t)
  /\ Replies(NoReply)
  /\ UNCHANGED <<hostVars, ipc, uiVars, saves>>

\* ======================================================== the host, as the UI sees it
\* recorder.ts:59-63 and 73-75: the events the host sends are those of its accepted
\* starts and stops; a stop is accepted only while the flag is set.
HostSends(ev) ==
  /\ mainWindow
  /\ Len(ipc) < MaxPending
  /\ ev.type = "stop-recording" => isRecording
  /\ isRecording' = (ev.type = "start-recording")
  /\ ipc' = Append(ipc, ev)
  /\ Replies(Success(ev.type))
  /\ UNCHANGED <<mainWindow, delayTimeout, delay, platform, starts, savePath, uiVars,
                 saves, job>>

Events == {StartEvent("screen:0:0", Null), StopEvent}

\* =========================================================== specifications
Init ==
  /\ mainWindow = FALSE
  /\ isRecording = FALSE
  /\ delayTimeout = Null
  /\ delay = 0
  /\ savePath = DefaultSavePath
  /\ platform \in Platforms
  /\ starts = [h \in StartIds |-> IdleStart]
  /\ ipc = <<>>
  /\ reply = NoReply
  /\ status = NoStatus
  /\ uiIsRecording = FALSE
  /\ mediaRecorder = NoRef
  /\ stream = NoRef
  /\ recordedChunks = <<>>
  /\ captures = [c \in CaptureIds |-> NoCapture]
  /\ acquiring = <<>>
  /\ verifyTimers = 0
  /\ stopTimers = 0
  /\ onstopWaiting = 0
  /\ saves = [s \in SaveIds |-> IdleSave]
  /\ job = IdleJob

\* The UI process never reads the platform: one is enough.
UiInit == Init /\ platform = "linux"

\* The start, stop and delay handlers of the host process under everything their
\* callers and the platform can do; the UI process only takes the events.
HostNext ==
  \/ CreateWindow
  \/ \E h \in StartIds, d \in -1..MaxDelay : RecordClicked(h, d)
  \/ \E h \in StartIds : StartRequest(h)
  \/ \E h \in StartIds : DelayElapsed(h)
  \/ \E h \in StartIds, e \in Enumerations : ScreenSourceDone(h, e)
  \/ \E h \in StartIds, e \in Enumerations : AudioSourceDone(h, e)
  \/ StopRequest
  \/ \E d \in -1..MaxDelay : SetDelay(d)
  \/ GetRecordingStatus
  \/ EventTaken

HostSpec == Init /\ [][HostNext]_vars

\* The save-video handler under every input, file system and ffmpeg outcome.
SaveNext ==
  \/ CreateWindow
  \/ \E d \in Dirs : SetSavePath(d)
  \/ \E b \in Buffers, f \in Filenames, io \in IoOutcomes : SaveVideo(b, f, io)
  \/ \E p \in ProbeOutcomes : FfprobeDone(p)
  \/ \E t \in TranscodeOutcomes(TRUE) \cup TranscodeOutcomes(FALSE) : FfmpegDone(t)

SaveSpec == Init /\ [][SaveNext]_vars

\* The three handlers that return a result, side by side: start and stop as in
\* HostSpec, save-video for one buffer and one name under every outcome.
HandlerNext ==
  \/ HostNext
  \/ \E io \in IoOutcomes : SaveVideo(<<1>>, RecordingFilename, io)
  \/ \E p \in ProbeOutcomes : FfprobeDone(p)
  \/ \E t \in TranscodeOutcomes(FALSE) : FfmpegDone(t)

HandlerSpec == Init /\ [][HandlerNext]_vars

\* One getUserMedia call is pending at most and one stream/recorder pair exists.
OneAtATime ==
  /\ Len(acquiring) <= 1
  /\ \A c \in CaptureIds \ {1} : captures[c] = NoCapture

\* doStartRecording and the settling of getUserMedia, as long as they keep to one
\* capture at a time.
StartsOne == OnStartRecording /\ OneAtATime'
AcquiresOne ==
  \E i \in 1..MaxAcquiring, o \in UserMediaOutcomes : UserMediaDone(i, o) /\ OneAtATime'

\* The UI process under every order of events the host can send and everything the
\* capture can do, with the save-video handler it calls, one capture at a time.
Next ==
  \/ CreateWindow
  \/ \E ev \in Events : HostSends(ev)
  \/ StartsOne
  \/ AcquiresOne
  \/ \E c \in CaptureIds, ch \in Chunks : ChunkArrives(c, ch)
  \/ \E c \in CaptureIds : RecorderError(c)
  \/ \E c \in CaptureIds : TrackEnded(c)
  \/ VerifyTimerFires
  \/ OnStopRecording
  \/ StopTimerFires
  \/ \E c \in CaptureIds, ch \in Chunks : RecorderStopped(c, ch)
  \/ OnstopFinalize
  \/ \E s \in SaveIds, io \in IoOutcomes : SaveVideoHandle(s, io)
  \/ \E s \in SaveIds, p \in ProbeOutcomes, t \in TranscodeOutcomes(FALSE) :
       SaveVideoConverted(s, p, t)
  \/ \E s \in SaveIds : SaveVideoReturned(s)

Spec == UiInit /\ [][Next]_vars

\* The handlers that read or write the settings: those of HostSpec, set-save-path,
\* and a save-video that meets no error.
SettingsNext ==
  \/ HostNext
  \/ \E d \in Dirs : SetSavePath(d)
  \/ SaveVideo(<<1>>, RecordingFilename, "ok")
  \/ FfprobeDone(ProbeFailed)
  \/ FfmpegDone(TranscodeEnd(FALSE))

SettingsSpec == Init /\ [][SettingsNext]_vars

\* The UI process with as many captures at a time as the events and getUserMedia
\* make, when neither the recorder nor the track fails and save-video succeeds.
OverlapNext ==
  \/ CreateWindow
  \/ \E ev \in Events : HostSends(ev)
  \/ OnStartRecording
  \/ \E i \in 1..MaxAcquiring, o \in UserMediaOutcomes : UserMediaDone(i, o)
  \/ \E c \in CaptureIds, ch \in Chunks : ChunkArrives(c, ch)
  \/ VerifyTimerFires
  \/ OnStopRecording
  \/ StopTimerFires
  \/ \E c \in CaptureIds, ch \in Chunks : RecorderStopped(c, ch)
  \/ OnstopFinalize
  \/ \E s \in SaveIds : SaveVideoHandle(s, "ok")
  \/ \E s \in SaveIds : SaveVideoConverted(s, ProbeFailed, TranscodeEnd(FALSE))
  \/ \E s \in SaveIds : SaveVideoReturned(s)

OverlapSpec == UiInit /\ [][OverlapNext]_vars

\* What the event loops of the two processes are bound to do once it is enabled: a
\* queued event, timer or callback runs, getUserMedia settles, and the steps of
\* save-video end.  Nothing makes the user act, the recorder emit or fail, or the
\* video track end.
UiFairness ==
  /\ WF_vars(StartsOne)
  /\ WF_vars(AcquiresOne)
  /\ WF_vars(VerifyTimerFires)
  /\ WF_vars(OnStopRecording)
  /\ WF_vars(StopTimerFires)
  /\ WF_vars(\E c \in CaptureIds, ch \in Chunks : RecorderStopped(c, ch))
  /\ WF_vars(OnstopFinalize)
  /\ WF_vars(\E s \in SaveIds, io \in IoOutcomes : SaveVideoHandle(s, io))
  /\ WF_vars(\E s \in SaveIds, p \in ProbeOutcomes, t \in TranscodeOutcomes(FALSE) :
               SaveVideoConverted(s, p, t))
  /\ WF_vars(\E s \in SaveIds : SaveVideoReturned(s))

FairSpec == Spec /\ UiFairness

\* ================================================================ properties
\* A step in which the host sends a 'start-recording' event: an accepted start.
StartSent ==
  /\ Len(ipc') = Len(ipc) + 1
  /\ ipc'[Len(ipc')].type = "start-recording"

\* A step in which recorder.startRecording is called: a request without pre-roll
\* delay, or the end of the delay.
StartIssued ==
  \E h \in StartIds : (StartRequest(h) /\ getDelay = 0) \/ DelayElapsed(h)

\* C1: the host never accepts two starts without an accepted stop in between: every
\* step that sends 'start-recording' is taken with isRecording false, whatever the
\* interleaving of the start handlers.
C1_SingleActiveSession == [][StartSent => ~isRecording]_vars

\* Two 'start-recording' events in a row, neither yet taken by the UI process.
C1_TwoStartsAccepted ==
  /\ Len(ipc) = 2
  /\ ipc[1].type = "start-recording"
  /\ ipc[2].type = "start-recording"

\* C2: a start issued (after its pre-roll delay, if any) while isRecording is true
\* fails with 'Recording is already in progress', sends no event and leaves the flag
\* true.
C2_StartWhileRecording ==
  [][(StartIssued /\ isRecording)
       => /\ reply' = Failure("start-recording", ErrAlreadyRecording)
          /\ ipc' = ipc
          /\ isRecording']_vars

\* A start has just been refused while the flag is set.
C2_Refused ==
  /\ reply = Failure("start-recording", ErrAlreadyRecording)
  /\ isRecording

\* C3: a stop requested while isRecording is false fails with 'No recording in
\* progress', sends no event and leaves the flag false.
C3_StopWhileNotRecording ==
  [][(StopRequest /\ ~isRecording)
       => /\ reply' = Failure("stop-recording", ErrNotRecording)
          /\ ipc' = ipc
          /\ ~isRecording']_vars

\* A stop has just been refused while the flag is clear.
C3_Refused ==
  /\ reply = Failure("stop-recording", ErrNotRecording)
  /\ ~isRecording

\* C4: a stop, or another start, requested while a start waits in its pre-roll delay
\* cancels that countdown: the waiting handler is over, and nothing is sent.
C4_PreRollCancellation ==
  [][\A h \in StartIds :
       (/\ starts[h].pc = "delay"
        /\ StopRequest \/ \E g \in StartIds \ {h} : StartRequest(g))
         => /\ starts'[h].pc = "idle"
            /\ ~StartSent]_vars

\* A stop has just been refused, and the countdown it met is still running.
C4_CountdownSurvivesStop ==
  /\ reply = Failure("stop-recording", ErrNotRecording)
  /\ \E h \in StartIds : starts[h].pc = "delay"

RECURSIVE ConcatNonZero(_)
\* The bytes of the chunks of nonzero length, in the order of the chunks.
ConcatNonZero(chunks) ==
  IF chunks = <<>>
  THEN <<>>
  ELSE (IF Len(Head(chunks)) > 0 THEN Head(chunks) ELSE <<>>)
         \o ConcatNonZero(Tail(chunks))

\* Some chunk of the sequence has nonzero length.
SomeNonZero(chunks) == \E i \in 1..Len(chunks) : Len(chunks[i]) > 0

\* C5: when the buffer holds at least one chunk of nonzero length, finalization
\* reports no error and submits to save-video exactly the bytes of the nonzero
\* chunks, in arrival order.
C5_FlushValidateSuccess ==
  [][(OnstopFinalize /\ SomeNonZero(recordedChunks))
       => /\ status' = NoStatus
          /\ \E s \in SaveIds :
               /\ saves[s].pc = "idle"
               /\ saves'[s] = Submitted(ConcatNonZero(recordedChunks), RecordingFilename)]_vars

\* The buffer [1, 0, 3 bytes] has been submitted as its 1 byte, then its 3.
C5_Submitted ==
  /\ recordedChunks = <<Bytes(1), <<>>, Bytes(3)>>
  /\ \E s \in SaveIds : /\ saves[s].pc = "sent"
                        /\ saves[s].buffer = <<1, 3, 3, 3>>

\* C6: when the buffer is empty or holds only chunks of length zero, finalization
\* reports the empty recording, ends the session (flag cleared, recorder and buffer
\* dropped) and submits nothing to save-video.
C6_FlushValidateFailure ==
  [][(OnstopFinalize /\ ~SomeNonZero(recordedChunks))
       => /\ status' \in {StatusNoVideoData, StatusEmptyVideo}
          /\ saves' = saves
          /\ ~uiIsRecording'
          /\ mediaRecorder' = NoRef
          /\ recordedChunks' = <<>>]_vars

\* An empty recording has just been reported, and no save-video is in flight.
C6_Failed ==
  /\ status = StatusNoVideoData
  /\ \A s \in SaveIds : saves[s].pc = "idle"

\* C7: whenever the transcode fails, save-video returns success with the path of
\* the temporary .webm file, never an error and never the .mp4 path.
C7_FallbackGuarantee ==
  (job.pc = "replied" /\ job.transcode.kind = "error")
    => job.result = SaveOk(WebmPath(job))

\* The transcode failed and the path of the .mp4 was returned.
C7_Mp4AfterError ==
  /\ job.pc = "replied"
  /\ job.transcode.kind = "error"
  /\ Mp4Path(job) # WebmPath(job)
  /\ job.result = SaveOk(Mp4Path(job))

\* C8: once save-video has returned, the temporary file is gone if the transcode
\* ended and the deletion worked; a deletion that failed leaves the file and the
\* result as they were; and the file, once written, is still there whenever the
\* transcode failed or was not reached.
C8_TempFileLifecycle ==
  job.pc = "replied"
    => /\ (job.transcode.kind = "end" /\ job.transcode.unlinked)
            => ~Exists(job.files, WebmPath(job))
       /\ job.transcode.kind = "end" => job.result = SaveOk(Mp4Path(job))
       /\ (job.transcode.kind = "end" /\ ~job.transcode.unlinked)
            => job.files[WebmPath(job)] = Webm
       /\ job.transcode.kind = "error" => job.files[WebmPath(job)] = Webm
       /\ (job.transcode.kind = "none" /\ job.result.error = ErrEmptyWebm)
            => job.files[WebmPath(job)] = Webm

\* The transcode ended, the temporary file is deleted and the .mp4 is reported.
C8_Deleted ==
  /\ job.pc = "replied"
  /\ job.transcode.kind = "end"
  /\ ~Exists(job.files, WebmPath(job))
  /\ job.result = SaveOk(Mp4Path(job))

\* C9: the options ffmpeg is run with hold the audio options if and only if the
\* probe returned data with a stream of type audio; the video options are there in
\* every case.
C9_AudioAwareOptions ==
  job.pc = "transcoding"
    => /\ SubSeq(job.options, 1, 4)
            = <<"-c:v libx264", "-preset fast", "-crf 23", "-movflags +faststart">>
       /\ (\E i \in 1..Len(job.options) : job.options[i] \in {"-c:a aac", "-b:a 128k"})
            <=> (/\ job.probe.kind = "data"
                 /\ \E k \in 1..Len(job.probe.streams) : job.probe.streams[k] = "audio")
       /\ (\E i \in 1..Len(job.options) : job.options[i] = "-c:a aac")
            <=> (\E i \in 1..Len(job.options) : job.options[i] = "-b:a 128k")

\* ffmpeg runs with the audio options after a probe that found an audio stream.
C9_WithAudio ==
  /\ job.pc = "transcoding"
  /\ job.probe = ProbeData(<<"video", "audio">>)
  /\ job.options[5] = "-c:a aac"

\* C10: after a probe that failed, the handler goes on to the transcode with the
\* video options only, and what it returns is a success.
C10_ProbeFailureNonFatal ==
  job.probe.kind = "error"
    => /\ job.pc \in {"transcoding", "replied"}
       /\ ~job.hasAudio
       /\ job.options = VideoOptions
       /\ job.pc = "replied" => (job.transcode.kind # "none" /\ job.result.success)

\* The probe failed, the transcode ran and ended, and a success was returned.
C10_ProbeFailedTranscoded ==
  /\ job.pc = "replied"
  /\ job.probe.kind = "error"
  /\ job.transcode.kind = "end"
  /\ job.result.success

\* C11: when the size read back after the write is 0, save-video returns a failure
\* with no path, and the probe, the transcode and the deletion of the temporary
\* file are not attempted; when the directory cannot be made or the write fails, it
\* returns a failure with no path and no file is on disk.
C11_WriteIntegrity ==
  [][\A b \in Buffers, f \in Filenames, io \in IoOutcomes :
       (SaveVideo(b, f, io) /\ (io # "ok" \/ Len(b) = 0))
         => /\ job'.pc = "replied"
            /\ ~job'.result.success
            /\ job'.result.path = NoPath
            /\ job'.probe = NoProbe
            /\ job'.transcode = NoTranscode
            /\ IF io \in {"mkdirFails", "writeFails"}
               THEN \A p \in JobPaths(job') : ~Exists(job'.files, p)
               ELSE /\ job'.result.error = ErrEmptyWebm
                    /\ job'.files[WebmPath(job')] = Webm]_vars

\* A buffer that is not empty was written, read back empty and refused.
C11_ReadBackEmpty ==
  /\ job.pc = "replied"
  /\ job.size > 0
  /\ job.result = SaveError(ErrEmptyWebm)

\* What a handler hands back is a record with a success flag, and with an error
\* message exactly when the flag is false.
Structured(r) ==
  /\ r.success \in BOOLEAN
  /\ r.success <=> r.error = Null

\* C12: every run of the start, stop and save-video handlers ends by returning a
\* structured result: a start or stop handler that is over has returned one in that
\* step, a save-video that is over holds one, a failure carries its message and a
\* save-video failure no path.
C12_StructuredResults ==
  [][/\ (\E h \in StartIds : starts[h].pc # "idle" /\ starts'[h].pc = "idle")
          => (reply'.handler = "start-recording" /\ Structured(reply'))
     /\ (\E h \in StartIds : StartRequest(h) /\ starts'[h].pc = "idle")
          => (reply'.handler = "start-recording" /\ Structured(reply'))
     /\ StopRequest => (reply'.handler = "stop-recording" /\ Structured(reply'))
     /\ job'.pc = "replied"
          => /\ Structured(job'.result)
             /\ job'.result.success <=> job'.result.path # NoPath]_vars

\* A start has just failed for want of a source, and a save-video has failed too.
C12_BothFailed ==
  /\ reply = Failure("start-recording", ErrNoSource)
  /\ job.pc = "replied"
  /\ ~job.result.success

\* A step of a start or stop handler sends one event if it returns success, the
\* event of its kind, and no step sends anything otherwise.
OneEventPerAcceptance ==
  /\ reply' = Success("start-recording")
       => /\ Len(ipc') = Len(ipc) + 1
          /\ SubSeq(ipc', 1, Len(ipc)) = ipc
          /\ ipc'[Len(ipc')].type = "start-recording"
  /\ reply' = Success("stop-recording") => ipc' = Append(ipc, StopEvent)
  /\ reply' \notin {Success("start-recording"), Success("stop-recording")}
       => Len(ipc') <= Len(ipc)

\* No two events of the same kind follow each other in the channel.
Alternate(events) ==
  \A i \in 1..(Len(events) - 1) : events[i].type # events[i + 1].type

\* C13: the host sends one 'start-recording' per accepted start, one
\* 'stop-recording' per accepted stop and nothing for a refused or failed request,
\* and the events it has sent alternate start, stop, start, ...
C13_EventNotifications == [][OneEventPerAcceptance /\ Alternate(ipc')]_vars

\* The part of C13 that the code keeps: the count of events per result.
C13_EventCount == [][OneEventPerAcceptance]_vars

\* The second of two starts has just been accepted behind the first.
C13_StartAfterStart ==
  /\ reply = Success("start-recording")
  /\ ~Alternate(ipc)

\* C14: get-recording-status changes nothing and returns the flag; the flag is set
\* by a step that accepts a start, cleared by a step that accepts a stop, and kept
\* by every other step, so two queries with no accepted start or stop between them
\* return the same value.
C14_PureQuery ==
  [][/\ GetRecordingStatus
          => /\ reply' = Status(isRecording)
             /\ UNCHANGED <<hostVars, ipc, uiVars, saves, job>>
     /\ reply' = Success("start-recording") => isRecording'
     /\ reply' = Success("stop-recording") => ~isRecording'
     /\ reply' \notin {Success("start-recording"), Success("stop-recording")}
          => isRecording' = isRecording]_vars

\* The query has answered true while a recording is on.
C14_AnsweredTrue ==
  /\ reply = Status(TRUE)
  /\ isRecording

\* C15: when the screen enumeration resolves to no entry the start returns the
\* failure 'No screen sources available', sends nothing and leaves isRecording as it
\* was; when it resolves to one entry or more the first is the video source, which
\* is the one named in the event the start sends.
C15_NoSourceAvailable ==
  [][/\ \A h \in StartIds, l \in SourceLists :
          ScreenSourceDone(h, Resolved(l))
            => IF Len(l) = 0
               THEN /\ reply' = Failure("start-recording", ErrNoSource)
                    /\ starts'[h] = IdleStart
                    /\ ipc' = ipc
                    /\ isRecording' = isRecording
               ELSE IF platform = "win32"
                    THEN starts'[h].video = l[1] /\ ipc' = ipc
                    ELSE /\ ipc' = Append(ipc, StartEvent(l[1], Null))
                         /\ reply' = Success("start-recording")
     /\ \A h \in StartIds, e \in Enumerations :
          AudioSourceDone(h, e)
            => /\ Len(ipc') = Len(ipc) + 1
               /\ ipc'[Len(ipc')].videoSourceId = starts[h].video]_vars

\* A start has just failed for want of a screen, with nothing sent and no recording.
C15_StartFailedNoSource ==
  /\ reply = Failure("start-recording", ErrNoSource)
  /\ ipc = <<>>
  /\ ~isRecording

\* C16: on a platform other than win32 a start whose video source was found is
\* accepted at once with no audio source and no audio enumeration is ever awaited;
\* on win32 the start is accepted whatever the audio enumeration gives, with no
\* audio source when it rejects or is empty.
C16_AudioBestEffort ==
  [][/\ platform # "win32"
          => /\ \A h \in StartIds : starts'[h].pc # "getAudioSource"
             /\ \A h \in StartIds, l \in SourceLists \ {<<>>} :
                  ScreenSourceDone(h, Resolved(l))
                    => /\ reply' = Success("start-recording")
                       /\ ipc' = Append(ipc, StartEvent(l[1], Null))
     /\ \A h \in StartIds, e \in Enumerations :
          AudioSourceDone(h, e)
            => /\ reply' = Success("start-recording")
               /\ isRecording'
               /\ ipc' = Append(ipc, StartEvent(starts[h].video,
                                  IF e = Rejected \/ e = Resolved(<<>>)
                                  THEN Null ELSE e.sources[1]))]_vars

\* On win32 a start has just been accepted with a video source and no audio source.
C16_AcceptedWithoutAudio ==
  /\ platform = "win32"
  /\ reply = Success("start-recording")
  /\ Len(ipc) > 0
  /\ ipc[Len(ipc)].videoSourceId # Null
  /\ ipc[Len(ipc)].audioSourceId = Null

\* A capture session of the UI process has failed: a stream was acquired without a
\* live video track, or the recorder or the video track failed while recording.
SessionFails ==
  \/ \E i \in 1..MaxAcquiring : UserMediaDone(i, "absent") \/ UserMediaDone(i, "ended")
  \/ \E c \in CaptureIds : RecorderError(c) \/ TrackEnded(c)

\* Nothing of a session is held: no track of any stream is live, and the app refers
\* to no stream, no recorder and no chunk.
Released ==
  /\ \A c \in CaptureIds : captures[c].video # "live"
  /\ stream = NoRef
  /\ mediaRecorder = NoRef
  /\ recordedChunks = <<>>

\* C17: a failure of the capture session (a stream without a live video track, an
\* encoder error, the end of the video track) leaves the session not recording and
\* releases what it held: no live track, no stream, no recorder and no chunk remain.
C17_FailureReleases == [][SessionFails => (~uiIsRecording' /\ Released')]_vars

\* After an encoder error the app reports the failure and still holds the recorder
\* and a stream whose video track is live.
C17_LiveAfterError ==
  /\ status = StatusErrorRecording
  /\ ~uiIsRecording
  /\ mediaRecorder # NoRef
  /\ stream # NoRef
  /\ captures[stream].video = "live"

\* The save-video of a finished session is on its way to the host or being written,
\* probed or transcoded there.
SaveInProgress == \E s \in SaveIds : saves[s].pc \in {"sent", "converting"}

\* C18: a 'start-recording' event that reaches the UI process while the save-video
\* of the previous session is in progress starts a new capture: doStartRecording
\* goes on to acquire a stream instead of returning.
C18_SaveDoesNotBlockStart ==
  [][(OnStartRecording /\ SaveInProgress)
       => Len(acquiring') = Len(acquiring) + 1]_vars

\* The host has accepted a start and holds a recording to be on, the event was
\* taken, and the UI process, still waiting for save-video, acquires nothing and
\* holds no stream.
C18_StartDropped ==
  /\ isRecording
  /\ ipc = <<>>
  /\ SaveInProgress
  /\ uiIsRecording
  /\ acquiring = <<>>
  /\ stream = NoRef

\* C19: the stop finalization stops every track of the stream the app holds and
\* clears the reference whether the buffer is then accepted and submitted or
\* refused, and the reference stays cleared when save-video returns, with a success
\* or an error.
C19_FinalizeReleasesStream ==
  [][/\ OnstopFinalize
          => /\ stream' = NoRef
             /\ \A c \in CaptureIds :
                  c = stream => (captures'[c].video # "live"
                                 /\ captures'[c].rec # "recording")
     /\ (\E s \in SaveIds : SaveVideoReturned(s)) => stream' = stream]_vars

\* The finalization has just refused a buffer with no data and holds no stream, and
\* no track is live.
C19_ReleasedOnFailure ==
  /\ status = StatusNoVideoData
  /\ stream = NoRef
  /\ \A c \in CaptureIds : captures[c].video # "live"

\* A JavaScript value that is a string.
JsString(s) == [string |-> s]

\* C20: the value doStartRecording passes to getUserMedia as chromeMediaSourceId is
\* the videoSourceId of the 'start-recording' event it handles.
C20_BoundToNegotiatedSource ==
  [][(OnStartRecording /\ ~uiIsRecording)
       => acquiring'[Len(acquiring')].chromeMediaSourceId
            = JsString(Head(ipc).videoSourceId)]_vars

\* getUserMedia is pending with the whole payload of the event as its source id.
C20_PayloadAsSourceId ==
  /\ Len(acquiring) > 0
  /\ acquiring[1].chromeMediaSourceId
       = JsObject([videoSourceId |-> "screen:0:0", audioSourceId |-> Null])

\* A session has failed in the UI process: getUserMedia rejected, or one of the
\* failures of SessionFails.
SessionFailsInUi ==
  \/ SessionFails
  \/ \E i \in 1..MaxAcquiring : UserMediaDone(i, "rejected")

\* C21: once a session has failed in the UI process the host holds no recording to
\* be on: get-recording-status answers false, so that a fresh start passes the test
\* of the flag without a stop in between.
C21_FailedSessionIsOver == [][SessionFailsInUi => ~getRecordingStatus']_vars

\* getUserMedia has rejected, the UI process records nothing and waits for nothing,
\* and the host still holds the recording to be on.
C21_HostStillRecording ==
  /\ status = StatusErrorStarting
  /\ ~uiIsRecording
  /\ acquiring = <<>>
  /\ ipc = <<>>
  /\ getRecordingStatus

\* The host has just accepted a stop, whose event is on its way, for a session
\* whose recorder is recording.
StopAcceptedWhileRecording ==
  /\ reply = Success("stop-recording")
  /\ ipc # <<>>
  /\ uiIsRecording
  /\ mediaRecorder # NoRef
  /\ captures[mediaRecorder].rec = "recording"

\* The session is over in the UI process: not recording, no recorder, no chunk.
Finalized ==
  /\ ~uiIsRecording
  /\ mediaRecorder = NoRef
  /\ recordedChunks = <<>>

\* C22: after the host has accepted a stop for a session whose recorder is
\* recording, the UI process eventually is not recording, refers to no recorder and
\* holds no chunk, whatever data arrives in between.
C22_StopEventuallyFinalizes == StopAcceptedWhileRecording ~> Finalized

\* The host's last word was an accepted stop, every event was handled and nothing
\* is pending, yet the app still refers to the recorder and holds its chunks.
C22_StopIgnored ==
  /\ ~isRecording
  /\ ipc = <<>>
  /\ acquiring = <<>>
  /\ stopTimers = 0
  /\ onstopWaiting = 0
  /\ \A s \in SaveIds : saves[s].pc = "idle"
  /\ \A c \in CaptureIds : ~captures[c].finishing
  /\ mediaRecorder # NoRef
  /\ ~captures[mediaRecorder].onstop
  /\ recordedChunks # <<>>

\* A step that takes a 'stop-recording' event off the channel.
StopEventTaken ==
  /\ ipc # <<>>
  /\ Head(ipc) = StopEvent
  /\ ipc' = Tail(ipc)

\* C23: the stop path is entered only by a 'stop-recording' event.  The onstop
\* handler is installed and the stop timer armed only by a step that takes such an
\* event; a recorder leaves the recording state only when that timer fires, when
\* the recorder or the video track fails, or when the finalization stops the
\* tracks; the finalization waits only for a recorder with the handler installed,
\* and save-video is invoked only by the finalization.
C23_NoSelfTermination ==
  [][/\ \A c \in CaptureIds :
          (captures'[c].onstop /\ ~captures[c].onstop) => StopEventTaken
     /\ stopTimers' > stopTimers => StopEventTaken
     /\ \A c \in CaptureIds :
          (captures[c].rec = "recording" /\ captures'[c].rec # "recording")
            => \/ stopTimers' < stopTimers
               \/ RecorderError(c)
               \/ TrackEnded(c)
               \/ OnstopFinalize
     /\ onstopWaiting' > onstopWaiting
          => \E c \in CaptureIds : captures[c].onstop /\ captures[c].finishing
     /\ (\E s \in SaveIds : saves[s].pc = "idle" /\ saves'[s].pc = "sent")
          => OnstopFinalize]_vars

\* After a stop event the finalization has submitted the recording to save-video.
C23_FinalizedAfterStop ==
  /\ ~isRecording
  /\ ipc = <<>>
  /\ stream = NoRef
  /\ \E s \in SaveIds : saves[s].pc = "sent"

\* C24: a chunk that arrives from a recorder that is recording, empty or not, is
\* put at the end of the buffer, the chunks before it keep their places, and
\* nothing else of the UI process changes.
C24_ChunkArrivalFrame ==
  [][\A c \in CaptureIds, ch \in Chunks :
       ChunkArrives(c, ch)
         => /\ Len(recordedChunks') = Len(recordedChunks) + 1
            /\ recordedChunks'[Len(recordedChunks')] = ch
            /\ SubSeq(recordedChunks', 1, Len(recordedChunks)) = recordedChunks
            /\ UNCHANGED <<uiIsRecording, mediaRecorder, stream, captures, acquiring,
                           verifyTimers, stopTimers, onstopWaiting, saves, ipc>>
            /\ status' = NoStatus]_vars

\* While recording, an empty chunk has been buffered behind one with data.
C24_EmptyChunkBuffered ==
  /\ uiIsRecording
  /\ mediaRecorder # NoRef
  /\ captures[mediaRecorder].rec = "recording"
  /\ recordedChunks = <<Bytes(1), <<>>>>

\* C25: when the UI process starts to record its buffer is empty, and while the app
\* refers to a recorder, whose session the buffer belongs to, no chunk of another
\* recorder is put into the buffer.
C25_FreshSession ==
  [][/\ (uiIsRecording' /\ ~uiIsRecording) => recordedChunks' = <<>>
     /\ \A c \in CaptureIds, ch \in Chunks :
          (ChunkArrives(c, ch) \/ RecorderStopped(c, ch))
            => mediaRecorder \in {NoRef, c}]_vars

\* The part of C25 about the moment a session starts to record.
C25_EmptyAtStart ==
  [][(uiIsRecording' /\ ~uiIsRecording) => recordedChunks' = <<>>]_vars

\* Two recorders are recording into the one buffer, which holds a chunk; the app
\* refers to the second.
C25_TwoRecordersOneBuffer ==
  /\ \A c \in CaptureIds : captures[c].rec = "recording"
  /\ mediaRecorder = 2
  /\ uiIsRecording
  /\ recordedChunks # <<>>

\* C26: the save directory and the pre-roll delay are changed only by the
\* configuration surface: a step changes the delay only if it is a set-delay from
\* the delay input and the directory only if it is a set-save-path from the file
\* picker; no step of a start, a stop or a save-video changes either.
C26_PipelineReadsSettings ==
  [][/\ delay' # delay => \E d \in -1..MaxDelay : SetDelay(d)
     /\ savePath' # savePath => \E d \in Dirs : SetSavePath(d)]_vars

\* The part of C26 about the handlers of the host alone: start-recording,
\* stop-recording and save-video write neither setting.
C26_HandlersReadSettings ==
  [][(\/ \E h \in StartIds : StartRequest(h) \/ DelayElapsed(h)
      \/ \E h \in StartIds, e \in Enumerations :
           ScreenSourceDone(h, e) \/ AudioSourceDone(h, e)
      \/ StopRequest
      \/ SaveVideo(<<1>>, RecordingFilename, "ok")
      \/ FfprobeDone(ProbeFailed)
      \/ FfmpegDone(TranscodeEnd(FALSE)))
       => UNCHANGED <<delay, savePath>>]_vars

\* A click on Record has just stored a delay, and the start it is about to ask for
\* will wait that long.
C26_StartWroteDelay ==
  /\ reply = Success("set-delay")
  /\ \E h \in StartIds : starts[h].pc = "saveDelay"
  /\ delay = MaxDelay

\* Where save-video, invoked with the save directory `dir`, writes the file `name`.
WrittenTo(dir, name) == WebmPath(HandleStep(dir, <<1>>, name, "ok"))

\* C27: the directory a session's file is written to is fixed when the session is
\* started: a set-save-path made while the recording is on leaves the place where
\* save-video will write the session's file as it was.
C27_SavePathReadAtStart ==
  [][\A d \in Dirs :
       (isRecording /\ SetSavePath(d))
         => WrittenTo(savePath', RecordingFilename)
              = WrittenTo(savePath, RecordingFilename)]_vars

\* save-video has written a recording that is over into the picked directory.
C27_WrittenToPicked ==
  /\ job.pc = "replied"
  /\ job.result.success
  /\ job.dir = "picked"
  /\ savePath = "picked"
  /\ ~isRecording

\* C28: the stored delay is never negative: it is 0 at first, a set-delay with d
\* (from the delay input or from a click on Record) leaves max(0, d), and a start
\* handler enters its wait only with a delay above 0.
C28_DelayNonNegative ==
  /\ [](getDelay \in 0..MaxDelay)
  /\ [][/\ \A d \in -1..MaxDelay :
             (SetDelay(d) \/ \E h \in StartIds : RecordClicked(h, d))
               => getDelay' = IF d < 0 THEN 0 ELSE d
        /\ \A h \in StartIds :
             (starts[h].pc # "delay" /\ starts'[h].pc = "delay") => getDelay > 0]_vars

\* The delay input has just brought a delay that was above 0 back to 0.
C28_DelayBackToZero ==
  /\ reply = Success("set-delay")
  /\ \A h \in StartIds : starts[h].pc = "idle"
  /\ getDelay = 0

\* No stop is under way in the UI process: no 'stop-recording' event waits in the
\* channel, no stop timer is armed and no recorder has its onstop handler set.
NoStopUnderWay ==
  /\ \A i \in 1..Len(ipc) : ipc[i].type # "stop-recording"
  /\ stopTimers = 0
  /\ \A c \in CaptureIds : ~captures[c].onstop

\* C29: whenever a recorder of the UI process is recording and no stop is under
\* way, the host holds the recording to be on, so that a stop is accepted.
C29_HostAndUiAgree ==
  (NoStopUnderWay /\ \E c \in CaptureIds : captures[c].rec = "recording")
    => isRecording

\* The UI process records, with every event handled and no stop under way, while
\* the host holds no recording to be on.
C29_RecordingUnknownToHost ==
  /\ uiIsRecording
  /\ mediaRecorder # NoRef
  /\ captures[mediaRecorder].rec = "recording"
  /\ ipc = <<>>
  /\ NoStopUnderWay
  /\ ~isRecording

\* The streams with a live video track, and the recorders that are recording.
LiveStreams == {c \in CaptureIds : captures[c].video = "live"}
Recording == {c \in CaptureIds : captures[c].rec = "recording"}

\* C30: in the UI process one stream at most is live and one recorder at most is
\* recording, and a stream that is live is the one the app refers to.
C30_NoOverlapNoLeak ==
  /\ Cardinality(LiveStreams) <= 1
  /\ Cardinality(Recording) <= 1
  /\ \A c \in LiveStreams : stream = c

\* Two streams are live and two recorders recording; the app refers to the second
\* stream only, so nothing can stop the tracks of the first.
C30_FirstStreamLeaked ==
  /\ LiveStreams = {1, 2}
  /\ Recording = {1, 2}
  /\ stream = 2
  /\ acquiring = <<>>

Submits == \E s \in SaveIds : saves[s].pc = "idle" /\ saves'[s].pc = "sent"

\* The recorder whose chunks the buffer holds was stopped through doStopRecording:
\* the handler a 'stop-recording' event installs is on it and it records no more.
StoppedSession ==
  /\ mediaRecorder # NoRef
  /\ captures[mediaRecorder].onstop
  /\ captures[mediaRecorder].rec # "recording"

\* C32: save-video is invoked once at most for each accepted stop and only after
\* the 'stop-recording' event of that stop: the step that submits the buffer takes
\* up one finalization that a stopped recorder has queued, and the buffer is that
\* of a session whose recorder the event stopped.
C32_SubmittedOncePerStop ==
  [][Submits => /\ onstopWaiting' = onstopWaiting - 1
                /\ StoppedSession]_vars

\* The first half of C32 by itself: every invocation of save-video takes up one
\* finalization, and a finalization is queued only by the stop event of a recorder
\* that carries the handler a 'stop-recording' event installed.
C32_OneFinalizationEach ==
  [][/\ Submits => onstopWaiting' = onstopWaiting - 1
     /\ onstopWaiting' > onstopWaiting
          => /\ onstopWaiting' = onstopWaiting + 1
             /\ \E c \in CaptureIds :
                  captures[c].onstop /\ captures[c].finishing /\ ~captures'[c].finishing]_vars

\* save-video has been invoked with the buffer of a session no 'stop-recording'
\* event was handled for: its recorder has no onstop handler, and recorded until
\* the finalization of the session before it stopped the tracks of its stream.
C32_UnstoppedSessionSubmitted ==
  /\ \E s \in SaveIds : saves[s].pc = "sent" /\ saves[s].buffer # <<>>
  /\ stream = NoRef
  /\ mediaRecorder # NoRef
  /\ ~captures[mediaRecorder].onstop
  /\ captures[mediaRecorder].video = "stopped"
  /\ captures[mediaRecorder].finishing
====
